---------------------------- MODULE Spec2Model ----------------------------
(***************************************************************************)
(* Model of the video downloader's orchestration core:                     *)
(*   - ErrorRecovery (src/utilities.py): categorize_error and              *)
(*     suggest_recovery_action,                                            *)
(*   - VPNManager (src/video_downloader.py): connect_to_random_server,     *)
(*     disconnect, rotate_if_needed,                                       *)
(*   - the batch scheduler download_multiple_urls / process_single_url.    *)
(* Texts are sequences of one-character strings so that lower-casing and   *)
(* substring search are computed, not assumed.                             *)
(***************************************************************************)
EXTENDS Integers, Sequences, FiniteSets, Bags, TLC

VARIABLES
    max_retries,    \* ErrorRecovery.max_retries / GlobalConfig.retry_attempts
    delay_cap,      \* second argument of min(30 * attempt, ...) in suggest_recovery_action
    er_call,        \* the last ErrorRecovery call: its operation, arguments and return value
    enabled,        \* VPNManager.enabled (GlobalConfig.nordvpn_enabled)
    current_server, \* VPNManager.current_server, "None" or a country code
    last_rotation,  \* VPNManager.last_rotation, in seconds
    now,            \* the wall clock datetime.now() reads, in seconds
    concurrent_downloads, \* GlobalConfig.concurrent_downloads
    task,           \* per input URL: where its worker stands, its attempt number,
                    \* whether its next rotation is forced
    results,        \* the DownloadResults the batch returns, as a bag: their order is
                    \* left open
    va_call,        \* the last VideoAnalyzer.analyze_url call: its URL and its result
    vpn_call,       \* the VPNManager call in progress or just returned, with the
                    \* external commands it issued
    login,          \* the run of _handle_login on a page: profile, position, page
                    \* operations performed, result
    dl_call,        \* the last VideoExtractor.download_video call: what the engine
                    \* did, the output directory afterwards, the DownloadResult
    gc,             \* the GlobalConfig built from the configuration data
    click           \* the run of human_click on a page: selector, position, steps
                    \* performed, result

er_vars == <<max_retries, delay_cap, er_call>>
vpn_vars == <<enabled, current_server, last_rotation>>
batch_vars == <<concurrent_downloads, task, results>>
aux_vars == <<va_call, vpn_call, login, dl_call, gc, click>>
vars == <<max_retries, delay_cap, er_call, enabled, current_server, last_rotation,
          now, concurrent_downloads, task, results, va_call, vpn_call, login,
          dl_call, gc, click>>

(***************************************************************************)
(* Bounds of the model.                                                    *)
(***************************************************************************)
\* longest generated failure text over DigitAlphabet
MaxLen == 4
\* largest retry ceiling an ErrorRecovery is constructed with
MaxRetries == 11
\* number of input URLs of a batch
NumUrls == 2
\* largest retry_attempts a batch runs with
MaxBatchRetries == 1
\* how many times the clock advances during a batch
MaxTicks == 2
\* how many of the candidate countries random.choice draws from
MaxCountries == 1

(***************************************************************************)
(* Texts.                                                                  *)
(***************************************************************************)
UpperCase ==
    <<"A", "B", "C", "D", "E", "F", "G", "H", "I", "J", "K", "L", "M",
      "N", "O", "P", "Q", "R", "S", "T", "U", "V", "W", "X", "Y", "Z">>
LowerCase ==
    <<"a", "b", "c", "d", "e", "f", "g", "h", "i", "j", "k", "l", "m",
      "n", "o", "p", "q", "r", "s", "t", "u", "v", "w", "x", "y", "z">>

\* str.lower() on one character
LowerChar(c) ==
    IF \E i \in 1..Len(UpperCase) : UpperCase[i] = c
    THEN LowerCase[CHOOSE i \in 1..Len(UpperCase) : UpperCase[i] = c]
    ELSE c

\* error_message.lower()
str_lower(s) == [i \in 1..Len(s) |-> LowerChar(s[i])]

\* pattern in text   (Python substring test)
Contains(text, pattern) ==
    \E i \in 0..(Len(text) - Len(pattern)) :
        SubSeq(text, i + 1, i + Len(pattern)) = pattern

PatTimeout ==
    <<"t", "i", "m", "e", "o", "u", "t">>
PatConnection ==
    <<"c", "o", "n", "n", "e", "c", "t", "i", "o", "n">>
PatNetwork ==
    <<"n", "e", "t", "w", "o", "r", "k">>
PatNotFound ==
    <<"n", "o", "t", " ", "f", "o", "u", "n", "d">>
Pat404 ==
    <<"4", "0", "4">>
PatDoesNotExist ==
    <<"d", "o", "e", "s", " ", "n", "o", "t", " ", "e", "x", "i", "s", "t">>
Pat403 ==
    <<"4", "0", "3">>
PatForbidden ==
    <<"f", "o", "r", "b", "i", "d", "d", "e", "n">>
PatAccessDenied ==
    <<"a", "c", "c", "e", "s", "s", " ", "d", "e", "n", "i", "e", "d">>
PatRateLimit ==
    <<"r", "a", "t", "e", " ", "l", "i", "m", "i", "t">>
Pat429 ==
    <<"4", "2", "9">>
PatTooManyRequests ==
    <<"t", "o", "o", " ", "m", "a", "n", "y", " ", "r", "e", "q", "u", "e", "s", "t", "s">>
PatLogin ==
    <<"l", "o", "g", "i", "n">>
PatAuthentication ==
    <<"a", "u", "t", "h", "e", "n", "t", "i", "c", "a", "t", "i", "o", "n">>
PatUnauthorized ==
    <<"u", "n", "a", "u", "t", "h", "o", "r", "i", "z", "e", "d">>

\* bug variant: the network_timeout row comes last in the table
error_patterns_TimeoutLast ==
    << [category |-> "video_not_found",
        patterns |-> <<PatNotFound, Pat404, PatDoesNotExist>>],
       [category |-> "access_denied",
        patterns |-> <<Pat403, PatForbidden, PatAccessDenied>>],
       [category |-> "rate_limited",
        patterns |-> <<PatRateLimit, Pat429, PatTooManyRequests>>],
       [category |-> "login_required",
        patterns |-> <<PatLogin, PatAuthentication, PatUnauthorized>>],
       [category |-> "network_timeout",
        patterns |-> <<PatTimeout, PatConnection, PatNetwork>>] >>

\* self.error_patterns, in the dict's insertion order
error_patterns ==
    << [category |-> "network_timeout",
        patterns |-> <<PatTimeout, PatConnection, PatNetwork>>],
       [category |-> "video_not_found",
        patterns |-> <<PatNotFound, Pat404, PatDoesNotExist>>],
       [category |-> "access_denied",
        patterns |-> <<Pat403, PatForbidden, PatAccessDenied>>],
       [category |-> "rate_limited",
        patterns |-> <<PatRateLimit, Pat429, PatTooManyRequests>>],
       [category |-> "login_required",
        patterns |-> <<PatLogin, PatAuthentication, PatUnauthorized>>] >>

\* bug variant: only the first pattern of a category is tried
AnyPatternIn_FirstOnly(error_lower, patterns) ==
    Contains(error_lower, patterns[1])

\* any(pattern in error_lower for pattern in patterns)
AnyPatternIn(error_lower, patterns) ==
    \E k \in 1..Len(patterns) : Contains(error_lower, patterns[k])

(***************************************************************************)
(* ErrorRecovery.categorize_error                                          *)
(***************************************************************************)
\* the for loop over self.error_patterns.items(): the first category one of
\* whose patterns occurs in error_lower is returned, else 'unknown'
RECURSIVE CategorizeFrom(_, _)
CategorizeFrom(error_lower, i) ==
    IF i > Len(error_patterns)
    THEN "unknown"
    ELSE IF AnyPatternIn(error_lower, error_patterns[i].patterns)
         THEN error_patterns[i].category
         ELSE CategorizeFrom(error_lower, i + 1)

\* bug variant: the text is searched without lower-casing it
categorize_error_NoLower(error_message) ==
    CategorizeFrom(error_message, 1)

\* bug variant: the last matching category of the table wins
categorize_error_LastMatch(error_message) ==
    LET el == str_lower(error_message)
        M == {i \in 1..Len(error_patterns) :
                 AnyPatternIn(el, error_patterns[i].patterns)}
    IN IF M = {} THEN "unknown"
       ELSE error_patterns[CHOOSE i \in M : \A j \in M : j <= i].category

categorize_error(error_message) ==
    CategorizeFrom(str_lower(error_message), 1)

(***************************************************************************)
(* ErrorRecovery.suggest_recovery_action                                   *)
(***************************************************************************)
Min(a, b) == IF a < b THEN a ELSE b

\* bug variant: the delay grows without the cap
network_timeout_delay_NoCap(att) == 30 * att

\* 'delay': min(30 * attempt, <cap>)
network_timeout_delay(att) == Min(30 * att, delay_cap)

\* bug variant: a missing login is retried like an unknown failure
recovery_actions_RetryLogin(att) ==
    [c \in {"network_timeout", "video_not_found", "access_denied",
            "rate_limited", "login_required", "unknown"} |->
        IF c = "video_not_found"
        THEN [action |-> "skip", retry |-> FALSE, change_ip |-> FALSE]
        ELSE [action |-> "retry_with_delay", retry |-> TRUE,
              delay |-> 60, change_ip |-> FALSE]]

\* the actions table; skip and abort carry no delay
recovery_actions(att) ==
    [network_timeout |-> [action |-> "retry_with_delay", retry |-> TRUE,
                          delay |-> network_timeout_delay(att), change_ip |-> FALSE],
     video_not_found |-> [action |-> "skip", retry |-> FALSE, change_ip |-> FALSE],
     access_denied   |-> [action |-> "retry_with_rotation", retry |-> TRUE,
                          delay |-> 60, change_ip |-> TRUE],
     rate_limited    |-> [action |-> "retry_with_delay", retry |-> TRUE,
                          delay |-> 120, change_ip |-> TRUE],
     login_required  |-> [action |-> "skip", retry |-> FALSE, change_ip |-> FALSE],
     unknown         |-> [action |-> "retry_with_delay", retry |-> TRUE,
                          delay |-> 60, change_ip |-> FALSE]]

abort_action == [action |-> "abort", retry |-> FALSE, change_ip |-> FALSE]

\* bug variant: the ceiling is compared one attempt too late
suggest_recovery_action_LateAbort(error_category, att) ==
    IF att > max_retries + 1
    THEN abort_action
    ELSE recovery_actions(att)[error_category]

suggest_recovery_action(error_category, att) ==
    IF att > max_retries
    THEN abort_action
    ELSE IF error_category \in DOMAIN recovery_actions(att)
         THEN recovery_actions(att)[error_category]
         ELSE recovery_actions(att)["unknown"]

(***************************************************************************)
(* Inputs of the ErrorRecovery calls.                                      *)
(***************************************************************************)
MsgConnectionTimeout ==
    <<"C", "o", "n", "n", "e", "c", "t", "i", "o", "n", " ", "t", "i", "m", "e", "o", "u", "t", " ", "a", "f", "t", "e", "r", " ", "3", "0", " ", "s", "e", "c", "o", "n", "d", "s">>
MsgRateLimitExceeded ==
    <<"R", "a", "t", "e", " ", "l", "i", "m", "i", "t", " ", "e", "x", "c", "e", "e", "d", "e", "d">>
MsgAccessForbidden ==
    <<"A", "c", "c", "e", "s", "s", " ", "f", "o", "r", "b", "i", "d", "d", "e", "n">>
Msg429TooManyRequests ==
    <<"4", "2", "9", " ", "T", "o", "o", " ", "M", "a", "n", "y", " ", "R", "e", "q", "u", "e", "s", "t", "s">>
MsgNoVideoInfo ==
    <<"K", "e", "i", "n", "e", " ", "V", "i", "d", "e", "o", "-", "I", "n", "f", "o", "r", "m", "a", "t", "i", "o", "n", "e", "n", " ", "g", "e", "f", "u", "n", "d", "e", "n">>
MsgFileNotFound ==
    <<"D", "o", "w", "n", "l", "o", "a", "d", "-", "D", "a", "t", "e", "i", " ", "n", "i", "c", "h", "t", " ", "g", "e", "f", "u", "n", "d", "e", "n">>
MsgHttp404 ==
    <<"D", "o", "w", "n", "l", "o", "a", "d", " ", "f", "e", "h", "l", "g", "e", "s", "c", "h", "l", "a", "g", "e", "n", ":", " ", "H", "T", "T", "P", " ", "E", "r", "r", "o", "r", " ", "4", "0", "4", ":", " ", "N", "o", "t", " ", "F", "o", "u", "n", "d">>
MsgHttp403 ==
    <<"H", "T", "T", "P", " ", "E", "r", "r", "o", "r", " ", "4", "0", "3", ":", " ", "F", "o", "r", "b", "i", "d", "d", "e", "n">>
MsgUnauthorized ==
    <<"4", "0", "1", " ", "U", "n", "a", "u", "t", "h", "o", "r", "i", "z", "e", "d">>
MsgLoginTimeout ==
    <<"L", "o", "g", "i", "n", " ", "t", "i", "m", "e", "o", "u", "t">>
MsgNetworkTooMany ==
    <<"N", "e", "t", "w", "o", "r", "k", " ", "e", "r", "r", "o", "r", ":", " ", "t", "o", "o", " ", "m", "a", "n", "y", " ", "r", "e", "q", "u", "e", "s", "t", "s">>
MsgUpperTimeout ==
    <<"T", "I", "M", "E", "O", "U", "T">>
MsgDoesNotExist ==
    <<"V", "i", "d", "e", "o", " ", "d", "o", "e", "s", " ", "n", "o", "t", " ", "e", "x", "i", "s", "t">>
MsgDeniedLogin ==
    <<"A", "c", "c", "e", "s", "s", " ", "d", "e", "n", "i", "e", "d", ":", " ", "l", "o", "g", "i", "n", " ", "r", "e", "q", "u", "i", "r", "e", "d">>
MsgRateAuth ==
    <<"R", "a", "t", "e", " ", "l", "i", "m", "i", "t", ":", " ", "a", "u", "t", "h", "e", "n", "t", "i", "c", "a", "t", "i", "o", "n", " ", "f", "a", "i", "l", "e", "d">>

WordTexts ==
    { <<>>, MsgConnectionTimeout, MsgRateLimitExceeded, MsgAccessForbidden,
      Msg429TooManyRequests, MsgNoVideoInfo, MsgFileNotFound, MsgHttp404,
      MsgHttp403, MsgUnauthorized, MsgLoginTimeout, MsgNetworkTooMany,
      MsgUpperTimeout, MsgDoesNotExist, MsgDeniedLogin, MsgRateAuth }

\* every text of at most MaxLen characters over the digits of the status codes
DigitAlphabet == {"4", "0", "3", "2", "9"}
DigitTexts == UNION { [1..n -> DigitAlphabet] : n \in 1..MaxLen }

FailureTexts == WordTexts \cup DigitTexts

Categories ==
    {"network_timeout", "video_not_found", "access_denied",
     "rate_limited", "login_required", "unknown"}

\* candidates for the cap: the source line ends at "min(30 * attempt, 3" and
\* the tests need delay = 30 at attempt 1
DelayCaps == {30, 300, 3600}

Attempts == 1..(MaxRetries + 2)

NoCall == [op |-> "none"]

\* the components a specification does not exercise stay as constructed
AuxIdle ==
    /\ va_call = NoCall
    /\ vpn_call = NoCall
    /\ login = NoCall
    /\ dl_call = NoCall
    /\ gc = NoCall
    /\ click = NoCall

(***************************************************************************)
(* ErrorRecovery as a state machine: construction, then calls.             *)
(***************************************************************************)
ErInit ==
    /\ max_retries \in 0..MaxRetries
    /\ delay_cap \in DelayCaps
    /\ er_call = NoCall
    /\ enabled = FALSE
    /\ current_server = "None"
    /\ last_rotation = 0
    /\ now = 0
    /\ concurrent_downloads = 1
    /\ task = <<>>
    /\ results = EmptyBag
    /\ AuxIdle

CallCategorizeError ==
    /\ er_call = NoCall
    /\ \E m \in FailureTexts :
         er_call' = [op |-> "categorize_error", error_message |-> m,
                     result |-> categorize_error(m)]
    /\ UNCHANGED <<max_retries, delay_cap, vpn_vars, now, batch_vars, aux_vars>>

CallSuggestRecoveryAction ==
    /\ er_call = NoCall
    /\ \E c \in Categories, a \in Attempts :
         er_call' = [op |-> "suggest_recovery_action", error_category |-> c,
                     attempt |-> a, result |-> suggest_recovery_action(c, a)]
    /\ UNCHANGED <<max_retries, delay_cap, vpn_vars, now, batch_vars, aux_vars>>

\* the call returns; the object is ready for the next call
ErReturn ==
    /\ er_call # NoCall
    /\ er_call' = NoCall
    /\ UNCHANGED <<max_retries, delay_cap, vpn_vars, now, batch_vars, aux_vars>>

ErNext == CallCategorizeError \/ CallSuggestRecoveryAction \/ ErReturn

SpecRecovery == ErInit /\ [][ErNext]_vars

(***************************************************************************)
(* VPNManager                                                              *)
(***************************************************************************)
\* countries of connect_to_random_server
countries == <<"US", "DE", "GB", "NL", "SE", "CH", "FR", "CA">>
CountryChoices == {countries[i] : i \in 1..Min(MaxCountries, Len(countries))}

\* random.randint(300, 1800), taken as minutes / 60, that is as seconds
IntervalMin == 300
IntervalMax == 1800
\* the number drawn being taken as minutes divided by 60 and then as minutes
RotationIntervals_Minutes == (IntervalMin \div 60)..(IntervalMax \div 60)
RotationIntervals == IntervalMin..IntervalMax

\* the rotation being due already when the elapsed time equals the interval
RotationDue_AtLeast(force, rotation_interval) ==
    force \/ (now - last_rotation) >= rotation_interval

\* force or time_since_rotation > rotation_interval
RotationDue(force, rotation_interval) ==
    force \/ (now - last_rotation) > rotation_interval

\* the outcomes the test of rotate_if_needed can have, over every interval
\* random.randint can draw
DueOutcomes(force) == {RotationDue(force, iv) : iv \in RotationIntervals}

\* disconnect() forgetting the server when the command went well
Disconnect_Clears(rc_ok) ==
    IF enabled /\ rc_ok
    THEN current_server' = "None" /\ UNCHANGED <<enabled, last_rotation>>
    ELSE UNCHANGED vpn_vars

\* disconnect(): runs "nordvpn disconnect" and reports its exit status; no
\* field of the manager is written
Disconnect(rc_ok) == UNCHANGED vpn_vars

\* connect_to_random_server with the test of enabled left out
Connect_IgnoreEnabled(country, rc_ok) ==
    IF rc_ok
    THEN /\ current_server' = country
         /\ last_rotation' = now
         /\ UNCHANGED enabled
    ELSE UNCHANGED vpn_vars

\* connect_to_random_server recording the country before the exit status is
\* looked at
Connect_RecordFirst(country, rc_ok) ==
    IF enabled
    THEN /\ current_server' = country
         /\ last_rotation' = IF rc_ok THEN now ELSE last_rotation
         /\ UNCHANGED enabled
    ELSE UNCHANGED vpn_vars

\* connect_to_random_server without the write of last_rotation
Connect_NoTimestamp(country, rc_ok) ==
    IF enabled /\ rc_ok
    THEN /\ current_server' = country
         /\ UNCHANGED <<enabled, last_rotation>>
    ELSE UNCHANGED vpn_vars

\* connect_to_random_server() up to the return of subprocess.run: on exit
\* status 0 the country and the time are recorded, otherwise (non-zero exit,
\* timeout, exception) nothing is
Connect(country, rc_ok) ==
    IF enabled /\ rc_ok
    THEN /\ current_server' = country
         /\ last_rotation' = now
         /\ UNCHANGED enabled
    ELSE UNCHANGED vpn_vars

(***************************************************************************)
(* The batch: download_multiple_urls over process_single_url.              *)
(***************************************************************************)
Urls == 1..NumUrls

\* the clock is observed once per minimum rotation interval
ClockStep == IntervalMin

\* a worker holds a slot of the pool from its start to its outcome
HoldsSlot(u) == task[u].pc \in {"rotate_pause", "download"}
InFlight == Cardinality({u \in Urls : HoldsSlot(u)})

\* bug variant: the pool admits every queued URL
SlotFree_Unbounded == TRUE

\* the pool has a free slot
SlotFree == InFlight < concurrent_downloads

\* bug variant: only successful outcomes are collected
Collect_SuccessOnly(res, u, ok) ==
    IF ok THEN res (+) SetToBag({[url |-> u, success |-> TRUE]}) ELSE res

\* the terminal DownloadResult of a URL joins the results
Collect(res, u, ok) == res (+) SetToBag({[url |-> u, success |-> ok]})

\* one failure text per category, as the extraction and automation paths
\* report them
BatchFailureTexts ==
    {MsgConnectionTimeout, MsgHttp404, MsgHttp403, Msg429TooManyRequests,
     MsgUnauthorized, MsgNoVideoInfo}

\* error_category = categorize_error(result.error) of each of them
BatchFailureCategories == {categorize_error(m) : m \in BatchFailureTexts}

BatchInit ==
    /\ max_retries \in 0..MaxBatchRetries
    /\ delay_cap = 300
    /\ er_call = NoCall
    /\ enabled \in BOOLEAN
    /\ current_server = "None"
    /\ last_rotation = 0
    /\ now = 0
    /\ concurrent_downloads \in 1..NumUrls
    /\ task = [u \in Urls |-> [pc |-> "queued", attempt |-> 1, force |-> FALSE]]
    /\ results = EmptyBag
    /\ AuxIdle

\* a queued URL gets a slot and its worker calls rotate_if_needed(force): up
\* to the first suspension this is the test and, when due, disconnect()
StartTask(u) ==
    /\ task[u].pc = "queued"
    /\ SlotFree
    /\ IF ~enabled
       THEN /\ task' = [task EXCEPT ![u].pc = "download"]
            /\ UNCHANGED vpn_vars
       ELSE \E due \in DueOutcomes(task[u].force), rc_ok \in BOOLEAN :
              IF due
              THEN /\ Disconnect(rc_ok)
                   /\ task' = [task EXCEPT ![u].pc = "rotate_pause"]
              ELSE /\ task' = [task EXCEPT ![u].pc = "download"]
                   /\ UNCHANGED vpn_vars
    /\ UNCHANGED <<er_vars, now, concurrent_downloads, results, aux_vars>>

\* after asyncio.sleep(1..3) the rotation calls connect_to_random_server()
\* and returns its result; the pause after a successful connect touches no
\* shared state and is part of this step. Whatever the result, the worker
\* goes on to the download
RotateConnect(u) ==
    /\ task[u].pc = "rotate_pause"
    /\ \E country \in CountryChoices, rc_ok \in BOOLEAN :
         Connect(country, rc_ok)
    /\ task' = [task EXCEPT ![u].pc = "download"]
    /\ UNCHANGED <<er_vars, now, concurrent_downloads, results, aux_vars>>

\* the extraction or automation path of the URL ends with a file
DownloadSucceeds(u) ==
    /\ task[u].pc = "download"
    /\ task' = [task EXCEPT ![u].pc = "done"]
    /\ results' = Collect(results, u, TRUE)
    /\ UNCHANGED <<er_vars, vpn_vars, now, concurrent_downloads, aux_vars>>

\* it ends with a failure text: the retry policy either puts the URL back in
\* the queue with the next attempt number (forcing a rotation when the
\* decision asks for an IP change) or makes the failure its outcome
DownloadFails(u) ==
    /\ task[u].pc = "download"
    /\ \E c \in BatchFailureCategories :
         LET decision == suggest_recovery_action(c, task[u].attempt)
         IN IF decision.retry
            THEN /\ task' = [task EXCEPT ![u] =
                        [pc |-> "queued", attempt |-> task[u].attempt + 1,
                         force |-> decision.change_ip]]
                 /\ UNCHANGED results
            ELSE /\ task' = [task EXCEPT ![u].pc = "done"]
                 /\ results' = Collect(results, u, FALSE)
    /\ UNCHANGED <<er_vars, vpn_vars, now, concurrent_downloads, aux_vars>>

\* time passes
Tick ==
    /\ now < MaxTicks * ClockStep
    /\ now' = now + ClockStep
    /\ UNCHANGED <<er_vars, vpn_vars, concurrent_downloads, task, results, aux_vars>>

Next ==
    \/ \E u \in Urls : StartTask(u)
    \/ \E u \in Urls : RotateConnect(u)
    \/ \E u \in Urls : DownloadSucceeds(u)
    \/ \E u \in Urls : DownloadFails(u)
    \/ Tick

Spec == BatchInit /\ [][Next]_vars

(***************************************************************************)
(* Properties of the batch, checked under Spec.                            *)
(***************************************************************************)
OutcomesOf(u) ==
    CopiesIn([url |-> u, success |-> TRUE], results)
        + CopiesIn([url |-> u, success |-> FALSE], results)

AllDone == \A u \in Urls : task[u].pc = "done"

\* C1: a batch on N URLs returns exactly N outcomes, one terminal
\* DownloadResult per input URL carrying that URL, whatever mix of successes,
\* failures and retries occurs: no outcome before a URL is finished, exactly
\* one once it is.
C1_OneOutcomePerUrl ==
    /\ \A r \in BagToSet(results) : r.url \in Urls
    /\ \A u \in Urls : OutcomesOf(u) = IF task[u].pc = "done" THEN 1 ELSE 0
    /\ AllDone => BagCardinality(results) = NumUrls

C1_Witness ==
    /\ AllDone
    /\ BagCardinality(results) = NumUrls
    /\ \E u \in Urls : task[u].attempt > 1
    /\ \E u, v \in Urls :
         /\ CopiesIn([url |-> u, success |-> TRUE], results) = 1
         /\ CopiesIn([url |-> v, success |-> FALSE], results) = 1

\* C2: in every state of a batch run the number of URLs whose work is in
\* flight is at most concurrent_downloads.
C2_ConcurrencyLimit == InFlight <= concurrent_downloads

C2_Witness ==
    /\ concurrent_downloads < NumUrls
    /\ InFlight = concurrent_downloads
    /\ \E u \in Urls : task[u].pc = "queued" /\ task[u].attempt = 1
    /\ \E u \in Urls : task[u].pc = "download"

\* a rotation that has issued its disconnect and not yet made its connect
RotationInFlight(u) == task[u].pc = "rotate_pause"

\* C3: when several workers call rotate_if_needed on the shared VPNManager,
\* at most one rotation (disconnect, pause, connect) is in flight at a time.
C3_SingleRotationInFlight ==
    Cardinality({u \in Urls : RotationInFlight(u)}) <= 1

\* C4: concurrent callers of rotate_if_needed perform at most one
\* disconnect+connect cycle per debounce window: no cycle is in flight at an
\* instant at which another cycle has completed its connect.
C4_OneCyclePerWindow ==
    ~ \E u \in Urls :
        /\ RotationInFlight(u)
        /\ current_server # "None"
        /\ last_rotation = now

(***************************************************************************)
(* Properties of ErrorRecovery, checked under SpecRecovery.                *)
(***************************************************************************)
IsCategorize == er_call.op = "categorize_error"
IsSuggest == er_call.op = "suggest_recovery_action"
WithinCeiling == IsSuggest /\ er_call.attempt <= max_retries

\* the table rows one of whose patterns occurs in the lower-cased text
MatchingRows(text) ==
    {i \in 1..Len(error_patterns) :
        \E k \in 1..Len(error_patterns[i].patterns) :
            Contains(str_lower(text), error_patterns[i].patterns[k])}

\* C5: for every category, unknown included, and every attempt number above
\* max_retries, suggest_recovery_action returns the abort decision.
C5_AbortBeyondCeiling ==
    (IsSuggest /\ er_call.attempt > max_retries)
        => /\ er_call.result.action = "abort"
           /\ er_call.result.retry = FALSE

C5_Witness ==
    /\ IsSuggest
    /\ er_call.error_category = "unknown"
    /\ er_call.attempt = max_retries + 1
    /\ er_call.result = abort_action

\* C6: categorize_error is total: every text gets one of the six categories,
\* and it gets unknown exactly when no pattern of any category occurs in the
\* lower-cased text.
C6_CategorizeTotal ==
    IsCategorize
        => /\ er_call.result \in Categories
           /\ (er_call.result = "unknown")
                 <=> (MatchingRows(er_call.error_message) = {})

C6_Witness ==
    /\ IsCategorize
    /\ er_call.error_message = MsgUpperTimeout
    /\ er_call.result = "network_timeout"

\* C7: when patterns of several categories occur in a text, the category that
\* comes first in the table order wins; 'Rate limit exceeded' is rate_limited
\* and 'Access forbidden' is access_denied, no earlier row matching them.
C7_FirstMatchWins ==
    IsCategorize
        => LET M == MatchingRows(er_call.error_message)
           IN /\ M # {} =>
                   er_call.result =
                       error_patterns[CHOOSE i \in M : \A j \in M : i <= j].category
              /\ er_call.error_message = MsgRateLimitExceeded
                   => (er_call.result = "rate_limited" /\ M = {4})
              /\ er_call.error_message = MsgAccessForbidden
                   => (er_call.result = "access_denied" /\ M = {3})

C7_Witness ==
    /\ IsCategorize
    /\ er_call.error_message = MsgDeniedLogin
    /\ MatchingRows(er_call.error_message) = {3, 5}
    /\ er_call.result = "access_denied"

\* the text holds the pattern 'timeout'
MentionsTimeout(text) == Contains(str_lower(text), PatTimeout)

\* C26: a failure text that holds 'timeout' is categorized network_timeout
\* whatever else it holds: network_timeout is the first row of the table, so
\* a pattern of a later row (login, rate limit, ...) in the same text does
\* not change the category.
C26_TimeoutIsNetworkTimeout ==
    (IsCategorize /\ MentionsTimeout(er_call.error_message))
        => er_call.result = "network_timeout"

\* a text with 'login' and 'timeout' in it
C26_Witness ==
    /\ IsCategorize
    /\ er_call.error_message = MsgLoginTimeout
    /\ MatchingRows(er_call.error_message) = {1, 5}
    /\ er_call.result = "network_timeout"

\* C26 as stated: a text that holds 'timeout' and a pattern of another
\* category is given that other category.
C26_MoreSpecificWins ==
    (IsCategorize /\ MentionsTimeout(er_call.error_message))
        => LET Others == MatchingRows(er_call.error_message) \ {1}
           IN IF Others = {}
              THEN er_call.result = "network_timeout"
              ELSE er_call.result \in {error_patterns[i].category : i \in Others}

\* C8: 'Connection timeout after 30 seconds' is network_timeout, and for
\* network_timeout within the ceiling the decision is retry_with_delay with
\* delay min(30 * attempt, cap): 30 at attempt 1, never above the cap, never
\* smaller than at the attempt before, and no IP change.
C8_NetworkTimeoutDelay ==
    /\ (IsCategorize /\ er_call.error_message = MsgConnectionTimeout)
           => er_call.result = "network_timeout"
    /\ (WithinCeiling /\ er_call.error_category = "network_timeout")
           => /\ er_call.result.action = "retry_with_delay"
              /\ er_call.result.delay <= delay_cap
              /\ er_call.result.delay <= 30 * er_call.attempt
              /\ er_call.result.delay \in {30 * er_call.attempt, delay_cap}
              /\ er_call.attempt = 1 => er_call.result.delay = 30
              /\ er_call.attempt > 1 =>
                    suggest_recovery_action("network_timeout",
                        er_call.attempt - 1).delay <= er_call.result.delay
              /\ er_call.result.change_ip = FALSE

C8_Witness ==
    /\ WithinCeiling
    /\ er_call.error_category = "network_timeout"
    /\ 30 * er_call.attempt > delay_cap
    /\ er_call.result.delay = delay_cap

\* C9: '429 Too Many Requests' is rate_limited, and for rate_limited within
\* the ceiling the decision is retry_with_delay, delay 120 at every attempt,
\* with an IP change.
C9_RateLimited ==
    /\ (IsCategorize /\ er_call.error_message = Msg429TooManyRequests)
           => er_call.result = "rate_limited"
    /\ (WithinCeiling /\ er_call.error_category = "rate_limited")
           => /\ er_call.result.action = "retry_with_delay"
              /\ er_call.result.delay = 120
              /\ er_call.result.change_ip = TRUE

C9_Witness ==
    /\ WithinCeiling
    /\ er_call.error_category = "rate_limited"
    /\ er_call.attempt > 1
    /\ er_call.result.delay = 120

\* C10: for video_not_found and login_required within the ceiling the
\* decision is skip with retry = false and no IP change.
C10_SkipCategories ==
    (WithinCeiling /\ er_call.error_category \in {"video_not_found", "login_required"})
        => /\ er_call.result.action = "skip"
           /\ er_call.result.retry = FALSE
           /\ er_call.result.change_ip = FALSE

C10_Witness ==
    /\ WithinCeiling
    /\ er_call.error_category = "login_required"
    /\ er_call.attempt > 1
    /\ er_call.result.action = "skip"

(***************************************************************************)
(* VideoAnalyzer: URLs are sequences of characters, urlparse is computed.  *)
(***************************************************************************)
\* the other components of a specification that exercises one component
RestIdle ==
    /\ max_retries = 3
    /\ delay_cap = 300
    /\ er_call = NoCall
    /\ concurrent_downloads = 3
    /\ task = <<>>
    /\ results = EmptyBag

VpnIdle ==
    /\ enabled = FALSE
    /\ current_server = "None"
    /\ last_rotation = 0
    /\ now = 0

StartsWith(s, prefix) ==
    /\ Len(prefix) <= Len(s)
    /\ SubSeq(s, 1, Len(prefix)) = prefix

\* str.endswith
EndsWith(s, suffix) ==
    /\ Len(suffix) <= Len(s)
    /\ SubSeq(s, Len(s) - Len(suffix) + 1, Len(s)) = suffix

\* str.find for one character, counted from 1; 0 when the character is absent
Find(s, chars) ==
    IF \E i \in 1..Len(s) : s[i] \in chars
    THEN CHOOSE i \in 1..Len(s) :
             /\ s[i] \in chars
             /\ \A k \in 1..(i - 1) : s[k] \notin chars
    ELSE 0

\* str.rfind for one character
RFind(s, chars) ==
    IF \E i \in 1..Len(s) : s[i] \in chars
    THEN CHOOSE i \in 1..Len(s) :
             /\ s[i] \in chars
             /\ \A k \in (i + 1)..Len(s) : s[k] \notin chars
    ELSE 0

From(s, i) == SubSeq(s, i, Len(s))

\* str.replace(old, ''): every occurrence, scanning from the left
RECURSIVE Remove(_, _)
Remove(s, old) ==
    IF Len(s) < Len(old) THEN s
    ELSE IF StartsWith(s, old) THEN Remove(From(s, Len(old) + 1), old)
    ELSE <<s[1]>> \o Remove(Tail(s), old)

Digits == {"0", "1", "2", "3", "4", "5", "6", "7", "8", "9"}
Letters == {UpperCase[i] : i \in 1..Len(UpperCase)} \cup {LowerCase[i] : i \in 1..Len(LowerCase)}
scheme_chars == Letters \cup Digits \cup {"+", "-", "."}

\* schemes whose last path segment may carry ;parameters
uses_params ==
    {<<>>, <<"f","t","p">>, <<"h","d","l">>, <<"h","t","t","p">>,
     <<"i","m","a","p">>, <<"h","t","t","p","s">>, <<"s","h","t","t","p">>,
     <<"r","t","s","p">>, <<"s","i","p">>, <<"s","i","p","s">>,
     <<"m","m","s">>, <<"s","f","t","p">>, <<"t","e","l">>}

\* the one element of a set of one element: a step's result is bound to a
\* name before the next step reads it
The(S) == CHOOSE x \in S : TRUE

\* urlsplit, first step: the scheme is what precedes the first colon when
\* that is a letter followed by scheme characters
split_scheme(url) ==
    LET colon == Find(url, {":"})
        has_scheme == /\ colon > 1
                      /\ url[1] \in Letters
                      /\ \A k \in 1..(colon - 1) : url[k] \in scheme_chars
    IN  IF has_scheme
        THEN [scheme |-> str_lower(SubSeq(url, 1, colon - 1)), rest |-> From(url, colon + 1)]
        ELSE [scheme |-> <<>>, rest |-> url]

\* urlsplit, second step (_splitnetloc): after // the netloc runs up to the
\* first of / ? #
split_netloc(url) ==
    LET delim == Find(From(url, 3), {"/", "?", "#"})
    IN  IF ~StartsWith(url, <<"/", "/">>) THEN [netloc |-> <<>>, rest |-> url]
        ELSE IF delim = 0 THEN [netloc |-> From(url, 3), rest |-> <<>>]
        ELSE [netloc |-> SubSeq(url, 3, delim + 1), rest |-> From(url, delim + 2)]

\* str.split(sep, 1)
split_once(s, sep) ==
    LET i == Find(s, {sep})
    IN  IF i = 0 THEN [head |-> s, tail |-> <<>>]
        ELSE [head |-> SubSeq(s, 1, i - 1), tail |-> From(s, i + 1)]

\* a netloc with one of [ ] and not the other
unmatched_bracket(netloc) == (Find(netloc, {"["}) > 0) # (Find(netloc, {"]"}) > 0)

\* urlsplit: scheme, then //netloc, then #fragment, then ?query; a netloc
\* with an unmatched bracket is rejected (ValueError)
urlsplit(url) ==
    The({
      The({
        IF unmatched_bracket(n.netloc)
        THEN [ok |-> FALSE, error |-> "Invalid IPv6 URL"]
        ELSE The({
               The({
                 [ok |-> TRUE, scheme |-> s.scheme, netloc |-> n.netloc,
                  path |-> q.head, query |-> q.tail, fragment |-> f.tail]
                 : q \in {split_once(f.head, "?")} })
               : f \in {split_once(n.rest, "#")} })
        : n \in {split_netloc(s.rest)} })
      : s \in {split_scheme(url)} })

\* _splitparams: the first ; after the last / of the path
_splitparams(path) ==
    LET slash == RFind(path, {"/"})
        semi == Find(From(path, slash + 1), {";"})
    IN  IF semi = 0 THEN path ELSE SubSeq(path, 1, slash + semi - 1)

\* urlparse(url): urlsplit, then the ;parameters leave the path
urlparse(url) ==
    The({ IF ~parts.ok THEN parts
          ELSE IF parts.scheme \in uses_params
          THEN [parts EXCEPT !.path = _splitparams(parts.path)]
          ELSE parts
          : parts \in {urlsplit(url)} })

ExtMp4 ==
    <<".", "m", "p", "4">>
ExtMkv ==
    <<".", "m", "k", "v">>
ExtAvi ==
    <<".", "a", "v", "i">>
ExtMov ==
    <<".", "m", "o", "v">>
ExtWmv ==
    <<".", "w", "m", "v">>
ExtFlv ==
    <<".", "f", "l", "v">>
ExtWebm ==
    <<".", "w", "e", "b", "m">>
ExtM4v ==
    <<".", "m", "4", "v">>
DomYoutube ==
    <<"y", "o", "u", "t", "u", "b", "e", ".", "c", "o", "m">>
DomYoutuBe ==
    <<"y", "o", "u", "t", "u", ".", "b", "e">>
DomVimeo ==
    <<"v", "i", "m", "e", "o", ".", "c", "o", "m">>
DomDailymotion ==
    <<"d", "a", "i", "l", "y", "m", "o", "t", "i", "o", "n", ".", "c", "o", "m">>
DomTwitch ==
    <<"t", "w", "i", "t", "c", "h", ".", "t", "v">>
DomFacebook ==
    <<"f", "a", "c", "e", "b", "o", "o", "k", ".", "c", "o", "m">>
DomInstagram ==
    <<"i", "n", "s", "t", "a", "g", "r", "a", "m", ".", "c", "o", "m">>
Www ==
    <<"w", "w", "w", ".">>
SchemeHttps ==
    <<"h", "t", "t", "p", "s", ":", "/", "/">>
SchemeHttpUpper ==
    <<"H", "T", "T", "P", ":", "/", "/">>
SchemeRelative ==
    <<"/", "/">>
HostExample ==
    <<"e", "x", "a", "m", "p", "l", "e", ".", "c", "o", "m">>
HostYoutube ==
    <<"y", "o", "u", "t", "u", "b", "e", ".", "c", "o", "m">>
HostWwwYoutube ==
    <<"w", "w", "w", ".", "y", "o", "u", "t", "u", "b", "e", ".", "c", "o", "m">>
HostYouTubeMixed ==
    <<"Y", "o", "u", "T", "u", "b", "e", ".", "c", "o", "m">>
HostYoutuBe ==
    <<"y", "o", "u", "t", "u", ".", "b", "e">>
HostUnknown ==
    <<"u", "n", "k", "n", "o", "w", "n", "-", "s", "i", "t", "e", ".", "c", "o", "m">>
HostVimeoPort ==
    <<"v", "i", "m", "e", "o", ".", "c", "o", "m", ":", "8", "0", "8", "0">>
HostBadBracket ==
    <<"[", ":", ":", "1">>
PathVideoMp4 ==
    <<"/", "v", "i", "d", "e", "o", ".", "m", "p", "4">>
PathVideoUpper ==
    <<"/", "V", "I", "D", "E", "O", ".", "M", "P", "4">>
PathWatch ==
    <<"/", "w", "a", "t", "c", "h">>
PathPlayer ==
    <<"/", "p", "l", "a", "y", "e", "r", "/", "v", "i", "d", "e", "o">>
PathWebmSlash ==
    <<"/", "c", "l", "i", "p", ".", "w", "e", "b", "m", "/">>
PathMp4Params ==
    <<"/", "a", ".", "m", "p", "4", ";", "v", "=", "1">>
PathM4v ==
    <<"/", "m", "o", "v", "i", "e", ".", "m", "4", "v">>
PathNoDot ==
    <<"/", "m", "p", "4">>
PathMp3 ==
    <<"/", "x", ".", "m", "p", "3">>
TailQuery ==
    <<"?", "v", "=", "a", "b", "c", "1", "2", "3">>
TailQueryMp4 ==
    <<"?", "f", "=", "a", ".", "m", "p", "4">>
TailFragment ==
    <<"#", "x", ".", "m", "k", "v">>

video_extensions == {ExtMp4, ExtMkv, ExtAvi, ExtMov, ExtWmv, ExtFlv, ExtWebm, ExtM4v}
streaming_domains ==
    {DomYoutube, DomYoutuBe, DomVimeo, DomDailymotion, DomTwitch, DomFacebook,
     DomInstagram}

\* parsed.netloc.replace('www.', ''): the case of the netloc is kept
url_domain_NoLower(netloc) == Remove(netloc, Www)

\* parsed.netloc.lower().replace('www.', '')
url_domain(netloc) == Remove(str_lower(netloc), Www)

\* the extension test without .lower()
_is_direct_video_url_NoLower(url) ==
    \E path \in {urlparse(url).path} :
        \E ext \in video_extensions : EndsWith(path, ext)

\* _is_direct_video_url: only reached for a url that urlparse accepts
_is_direct_video_url(url) ==
    \E path \in {str_lower(urlparse(url).path)} :
        \E ext \in video_extensions : EndsWith(path, ext)

\* _estimate_complexity
_estimate_complexity(url, domain) ==
    IF _is_direct_video_url(url) THEN "low"
    ELSE IF domain \in streaming_domains THEN "medium"
    ELSE "high"

\* the last branch answering like the streaming branch
_suggest_extraction_method_NoBrowser(url, domain) ==
    IF _is_direct_video_url(url) THEN "direct_download" ELSE "yt_dlp"

\* _suggest_extraction_method
_suggest_extraction_method(url, domain) ==
    IF _is_direct_video_url(url) THEN "direct_download"
    ELSE IF domain \in streaming_domains THEN "yt_dlp"
    ELSE "browser_automation"

\* analyze_url: the analysis, or the url with the error urlparse raised
analyze_url(url) ==
    The({ IF ~parsed.ok
          THEN [url |-> url, error |-> parsed.error]
          ELSE The({ [url |-> url,
                      domain |-> domain,
                      path |-> parsed.path,
                      is_direct_video |-> _is_direct_video_url(url),
                      is_streaming_platform |-> domain \in streaming_domains,
                      requires_extraction |-> ~_is_direct_video_url(url),
                      estimated_complexity |-> _estimate_complexity(url, domain),
                      suggested_method |-> _suggest_extraction_method(url, domain)]
                     : domain \in {url_domain(parsed.netloc)} })
          : parsed \in {urlparse(url)} })

\* the URLs analysed: scheme, host, path and tail, written one after another
UrlSchemes == {<<>>, SchemeHttps, SchemeHttpUpper, SchemeRelative}
UrlHosts ==
    {HostExample, HostYoutube, HostWwwYoutube, HostYouTubeMixed, HostYoutuBe,
     HostUnknown, HostVimeoPort, HostBadBracket}
UrlPaths ==
    {<<>>, PathVideoMp4, PathVideoUpper, PathWatch, PathPlayer, PathWebmSlash,
     PathMp4Params, PathM4v, PathNoDot, PathMp3}
UrlTails == {<<>>, TailQuery, TailQueryMp4, TailFragment}
AnalyzerUrls ==
    {s \o h \o p \o t : s \in UrlSchemes, h \in UrlHosts, p \in UrlPaths, t \in UrlTails}

VaInit ==
    /\ va_call = NoCall
    /\ vpn_call = NoCall
    /\ login = NoCall
    /\ dl_call = NoCall
    /\ gc = NoCall
    /\ click = NoCall
    /\ RestIdle
    /\ VpnIdle

CallAnalyzeUrl ==
    /\ va_call = NoCall
    /\ \E url \in AnalyzerUrls :
         va_call' = [op |-> "analyze_url", url |-> url, result |-> analyze_url(url)]
    /\ UNCHANGED <<er_vars, vpn_vars, now, batch_vars, click, vpn_call, login, dl_call, gc>>

\* the call returns; the analyzer keeps no state between calls
VaReturn ==
    /\ va_call # NoCall
    /\ va_call' = NoCall
    /\ UNCHANGED <<er_vars, vpn_vars, now, batch_vars, click, vpn_call, login, dl_call, gc>>

VaNext == CallAnalyzeUrl \/ VaReturn

SpecAnalyze == VaInit /\ [][VaNext]_vars

IsAnalyze == va_call.op = "analyze_url"
Analysed == IsAnalyze /\ "suggested_method" \in DOMAIN va_call.result

\* the path of the url ends, whatever the case of its letters, in one of the
\* video extensions
PathHasVideoExtension(url) ==
    \E path \in {urlparse(url).path}, ext \in video_extensions :
        /\ Len(path) >= Len(ext)
        /\ \A i \in 1..Len(ext) :
             LowerChar(path[Len(path) - Len(ext) + i]) = ext[i]

\* the host of the url, lower-cased and without www., is a streaming domain
DomainIsStreaming(url) ==
    \E netloc \in {str_lower(urlparse(url).netloc)}, d \in streaming_domains :
        netloc = d \/ netloc = Www \o d

\* C11: a url whose path ends, case-insensitively, in a video extension is
\* analysed as a direct video: is_direct_video, complexity low, method
\* direct_download, whatever its domain.
C11_DirectVideo ==
    (Analysed /\ PathHasVideoExtension(va_call.url))
        => /\ va_call.result.is_direct_video = TRUE
           /\ va_call.result.estimated_complexity = "low"
           /\ va_call.result.suggested_method = "direct_download"

C11_Witness ==
    /\ Analysed
    /\ va_call.result.path = PathVideoUpper
    /\ va_call.result.domain = DomYoutube
    /\ va_call.result.suggested_method = "direct_download"

\* C12 as stated: a url whose domain is a streaming domain is analysed as
\* is_streaming_platform, complexity medium, method yt_dlp.
C12_StreamingAlwaysYtDlp ==
    (Analysed /\ DomainIsStreaming(va_call.url))
        => /\ va_call.result.is_streaming_platform = TRUE
           /\ va_call.result.estimated_complexity = "medium"
           /\ va_call.result.suggested_method = "yt_dlp"

\* C12: a url whose domain is a streaming domain is analysed as
\* is_streaming_platform; when its path does not end in a video extension
\* the complexity is medium and the method yt_dlp.
C12_StreamingUnlessDirect ==
    (Analysed /\ DomainIsStreaming(va_call.url))
        => /\ va_call.result.is_streaming_platform = TRUE
           /\ ~PathHasVideoExtension(va_call.url)
                => /\ va_call.result.estimated_complexity = "medium"
                   /\ va_call.result.suggested_method = "yt_dlp"

C12_Witness ==
    /\ Analysed
    /\ va_call.url = SchemeHttpUpper \o HostYouTubeMixed \o PathWatch \o TailQuery
    /\ va_call.result.is_streaming_platform = TRUE
    /\ va_call.result.suggested_method = "yt_dlp"

Methods == {"direct_download", "yt_dlp", "browser_automation"}

NeitherDirectNorStreaming(r) ==
    /\ r.is_direct_video = FALSE
    /\ r.is_streaming_platform = FALSE
    /\ r.estimated_complexity = "high"
    /\ r.suggested_method = "browser_automation"

MaxConfigInt == 3

\* what a key of the file can hold: nothing (the key is absent), an integer,
\* a boolean, or a text that is no number
Absent == [kind |-> "absent"]
IntValue(n) == [kind |-> "int", value |-> n]
BoolValue(b) == [kind |-> "bool", value |-> b]
TextValue == [kind |-> "str"]

IntEntries == {Absent, TextValue} \cup {IntValue(n) : n \in (-1)..MaxConfigInt}
BoolEntries == {Absent} \cup {BoolValue(b) : b \in BOOLEAN}
\* rotation intervals a file is given here: once and twice the built-in upper
\* end
IntervalEntries == {Absent} \cup {IntValue(k * IntervalMax) : k \in 1..2}

\* the defaults of the fields
DefaultConcurrentDownloads == 3
DefaultRetryAttempts == 3
DefaultNordvpnEnabled == TRUE
DefaultIntervalMin == 300
DefaultIntervalMax == 1800

\* a field declared int with a default and nothing else: an integer is
\* taken as it is, an absent key gives the default, a text that is no
\* number is a validation error
int_field(entry, default) ==
    IF entry.kind = "absent" THEN [ok |-> TRUE, value |-> default]
    ELSE IF entry.kind = "int" THEN [ok |-> TRUE, value |-> entry.value]
    ELSE [ok |-> FALSE, value |-> default]

\* a field declared bool with a default
bool_field(entry, default) ==
    IF entry.kind = "absent" THEN [ok |-> TRUE, value |-> default]
    ELSE [ok |-> TRUE, value |-> entry.value]

\* GlobalConfig(**config_data): the model when every field validates, a
\* ValidationError otherwise
GlobalConfig(config_data) ==
    LET cd == int_field(config_data.concurrent_downloads, DefaultConcurrentDownloads)
        ra == int_field(config_data.retry_attempts, DefaultRetryAttempts)
        ne == bool_field(config_data.nordvpn_enabled, DefaultNordvpnEnabled)
        lo == int_field(config_data.ip_rotation_interval_min, DefaultIntervalMin)
        hi == int_field(config_data.ip_rotation_interval_max, DefaultIntervalMax)
    IN  IF cd.ok /\ ra.ok /\ ne.ok /\ lo.ok /\ hi.ok
        THEN [ok |-> TRUE,
              concurrent_downloads |-> cd.value,
              retry_attempts |-> ra.value,
              nordvpn_enabled |-> ne.value,
              ip_rotation_interval_min |-> lo.value,
              ip_rotation_interval_max |-> hi.value]
        ELSE [ok |-> FALSE, error |-> "ValidationError"]

ConfigData ==
    [concurrent_downloads : IntEntries, retry_attempts : IntEntries,
     nordvpn_enabled : BoolEntries,
     ip_rotation_interval_min : IntervalEntries,
     ip_rotation_interval_max : IntervalEntries]

(***************************************************************************)
(* VPNManager as a state machine: construction, then calls one at a time.  *)
(***************************************************************************)
\* the clock of this specification advances MaxVpnTicks times
MaxVpnTicks == 7

\* how subprocess.run can end
RunOutcomes == {"zero", "nonzero", "timeout", "exception"}
AllCountries == {countries[i] : i \in 1..Len(countries)}

\* the commands connect_to_random_server hands to subprocess.run
connect_cmds(country) ==
    IF enabled THEN <<[cmd |-> "nordvpn connect", country |-> country]>> ELSE <<>>

\* what connect_to_random_server returns
connect_result(outcome) == IF enabled THEN outcome = "zero" ELSE TRUE

\* the commands disconnect hands to subprocess.run
disconnect_cmds ==
    IF enabled THEN <<[cmd |-> "nordvpn disconnect", country |-> "None"]>> ELSE <<>>

\* what disconnect returns
disconnect_result(outcome) == IF enabled THEN outcome = "zero" ELSE TRUE

\* the fields of the manager when a call begins
Before == [server |-> current_server, rotation |-> last_rotation]

\* the intervals drawn here from those random.randint can give: its two ends
\* and every whole number of clock steps between them
SampledIntervals ==
    {iv \in RotationIntervals :
        \/ iv % ClockStep = 0
        \/ \A other \in RotationIntervals : iv <= other
        \/ \A other \in RotationIntervals : iv >= other}

\* rotate_if_needed requiring the disconnect to have gone well, too
rotate_result_Both(disconnect_outcome, connect_outcome) ==
    disconnect_outcome = "zero" /\ connect_result(connect_outcome)

\* what rotate_if_needed returns when it rotates: the await of disconnect()
\* is not read, connect_to_random_server()'s result is returned
rotate_result(disconnect_outcome, connect_outcome) ==
    connect_result(connect_outcome)

\* the configurations a downloader is constructed from here: VPN on or off,
\* rotation intervals left at their defaults or both set to twice the
\* built-in upper end
VpnPolicies ==
    {[concurrent_downloads |-> Absent, retry_attempts |-> Absent,
      nordvpn_enabled |-> BoolValue(b),
      ip_rotation_interval_min |-> e, ip_rotation_interval_max |-> e] :
        b \in BOOLEAN, e \in {Absent, IntValue(2 * IntervalMax)}}

\* WebVideoDownloader.__init__: the configuration is loaded and
\* VPNManager(enabled=config.nordvpn_enabled) constructed: no server,
\* last_rotation is the time of construction
VpnInit ==
    /\ \E config_data \in VpnPolicies :
         /\ gc = [op |-> "GlobalConfig", config_data |-> config_data,
                  result |-> GlobalConfig(config_data)]
         /\ enabled = GlobalConfig(config_data).nordvpn_enabled
    /\ current_server = "None"
    /\ last_rotation = 0
    /\ now = 0
    /\ vpn_call = NoCall
    /\ va_call = NoCall
    /\ login = NoCall
    /\ dl_call = NoCall
    /\ click = NoCall
    /\ RestIdle

\* connect_to_random_server(); a disabled manager draws no country and runs
\* nothing
CallConnect ==
    /\ vpn_call = NoCall
    /\ \E country \in AllCountries, outcome \in RunOutcomes :
         /\ Connect(country, outcome = "zero")
         /\ vpn_call' = [op |-> "connect_to_random_server",
                         force |-> FALSE,
                         interval |-> 0,
                         pc |-> "done",
                         country |-> IF enabled THEN country ELSE "None",
                         disconnect_outcome |-> "none",
                         outcome |-> IF enabled THEN outcome ELSE "none",
                         cmds |-> connect_cmds(country),
                         result |-> connect_result(outcome),
                         raised |-> FALSE,
                         at |-> now,
                         before |-> Before]
    /\ UNCHANGED <<er_vars, now, batch_vars, click, va_call, login, dl_call, gc>>

\* disconnect()
CallDisconnect ==
    /\ vpn_call = NoCall
    /\ \E outcome \in RunOutcomes :
         /\ Disconnect(outcome = "zero")
         /\ vpn_call' = [op |-> "disconnect",
                         force |-> FALSE,
                         interval |-> 0,
                         pc |-> "done",
                         country |-> "None",
                         disconnect_outcome |-> IF enabled THEN outcome ELSE "none",
                         outcome |-> "none",
                         cmds |-> disconnect_cmds,
                         result |-> disconnect_result(outcome),
                         raised |-> FALSE,
                         at |-> now,
                         before |-> Before]
    /\ UNCHANGED <<er_vars, now, batch_vars, click, va_call, login, dl_call, gc>>

\* rotate_if_needed(force) up to its asyncio.sleep: a disabled manager
\* returns True at once; an enabled one draws an interval and, when the
\* rotation is not due, returns True; otherwise disconnect() runs and its
\* result is dropped
CallRotate ==
    /\ vpn_call = NoCall
    /\ \E force \in BOOLEAN, outcome \in RunOutcomes :
         \E interval \in IF enabled THEN SampledIntervals ELSE {0} :
            LET due == enabled /\ RotationDue(force, interval)
            IN  /\ IF due THEN Disconnect(outcome = "zero") ELSE UNCHANGED vpn_vars
                /\ vpn_call' = [op |-> "rotate_if_needed",
                                force |-> force,
                                interval |-> interval,
                                pc |-> IF due THEN "pause" ELSE "done",
                                country |-> "None",
                                disconnect_outcome |-> IF due THEN outcome ELSE "none",
                                outcome |-> "none",
                                cmds |-> IF due THEN disconnect_cmds ELSE <<>>,
                                result |-> TRUE,
                                raised |-> FALSE,
                                at |-> now,
                                before |-> Before]
    /\ UNCHANGED <<er_vars, now, batch_vars, click, va_call, login, dl_call, gc>>

\* rotate_if_needed after its asyncio.sleep: return await
\* connect_to_random_server()
RotateResume ==
    /\ vpn_call.op = "rotate_if_needed"
    /\ vpn_call.pc = "pause"
    /\ \E country \in AllCountries, outcome \in RunOutcomes :
         /\ Connect(country, outcome = "zero")
         /\ vpn_call' = [vpn_call EXCEPT
                           !.pc = "done",
                           !.country = country,
                           !.outcome = outcome,
                           !.cmds = @ \o connect_cmds(country),
                           !.result = rotate_result(vpn_call.disconnect_outcome, outcome)]
    /\ UNCHANGED <<er_vars, now, batch_vars, click, va_call, login, dl_call, gc>>

\* the call returns to its caller
VpnReturn ==
    /\ vpn_call # NoCall
    /\ vpn_call.pc = "done"
    /\ vpn_call' = NoCall
    /\ UNCHANGED <<er_vars, vpn_vars, now, batch_vars, click, va_call, login, dl_call, gc>>

\* time passes between calls
VpnTick ==
    /\ vpn_call = NoCall
    /\ now < MaxVpnTicks * ClockStep
    /\ now' = now + ClockStep
    /\ UNCHANGED <<er_vars, vpn_vars, batch_vars, aux_vars>>

VpnNext ==
    \/ CallConnect
    \/ CallDisconnect
    \/ CallRotate
    \/ RotateResume
    \/ VpnReturn
    \/ VpnTick

SpecVPN == VpnInit /\ [][VpnNext]_vars

InVpnCall == vpn_call # NoCall
IsConnect == vpn_call.op = "connect_to_random_server"
IsDisconnect == vpn_call.op = "disconnect"

\* C14: a disabled manager answers every call of connect_to_random_server,
\* disconnect and rotate_if_needed with True, runs no external command, and
\* keeps current_server = None and last_rotation at its construction time,
\* whatever calls came before.
C14_DisabledIsNoOp ==
    ~enabled
        => /\ current_server = "None"
           /\ last_rotation = 0
           /\ InVpnCall
                => /\ vpn_call.result = TRUE
                   /\ vpn_call.pc = "done"
                   /\ vpn_call.cmds = <<>>

C14_Witness ==
    /\ ~enabled
    /\ now >= 2 * ClockStep
    /\ vpn_call.op = "rotate_if_needed"
    /\ vpn_call.force = TRUE
    /\ vpn_call.result = TRUE

\* C15: on an enabled manager a connect whose external command exits
\* non-zero, times out or raises returns False, raises nothing and writes no
\* field: a manager without a server stays without one.
C15_FailedConnect ==
    (IsConnect /\ enabled /\ vpn_call.outcome # "zero")
        => /\ vpn_call.result = FALSE
           /\ vpn_call.raised = FALSE
           /\ current_server = vpn_call.before.server
           /\ last_rotation = vpn_call.before.rotation
           /\ (vpn_call.before.server = "None" => current_server = "None")

C15_Witness ==
    /\ IsConnect
    /\ enabled
    /\ vpn_call.outcome = "timeout"
    /\ vpn_call.before.server = "None"
    /\ current_server = "None"
    /\ now > last_rotation

\* C16: on an enabled manager a connect whose external command exits with 0
\* has run exactly one command, the connect to the chosen country, returns
\* True, and has set current_server to that country, one of the fixed list,
\* and last_rotation to the time of the call.
C16_SuccessfulConnect ==
    (IsConnect /\ enabled /\ vpn_call.outcome = "zero")
        => /\ Len(vpn_call.cmds) = 1
           /\ vpn_call.cmds[1] = [cmd |-> "nordvpn connect", country |-> vpn_call.country]
           /\ vpn_call.result = TRUE
           /\ vpn_call.country \in AllCountries
           /\ current_server = vpn_call.country
           /\ last_rotation = vpn_call.at

C16_Witness ==
    /\ IsConnect
    /\ enabled
    /\ vpn_call.outcome = "zero"
    /\ vpn_call.before.server \notin {"None", vpn_call.country}
    /\ vpn_call.before.rotation < vpn_call.at
    /\ current_server = vpn_call.country

\* C17 as stated: a successful disconnect leaves no current identity
\* recorded; on a manager without one it reports success.
C17_DisconnectClears ==
    (IsDisconnect /\ enabled)
        => /\ vpn_call.result = TRUE => current_server = "None"
           /\ vpn_call.before.server = "None" => vpn_call.result = TRUE

IsRotate == vpn_call.op = "rotate_if_needed"

\* a call of rotate_if_needed rotated when it ran an external command
Rotated == vpn_call.cmds # <<>>

\* time_since_rotation as the call computed it
Elapsed == vpn_call.at - vpn_call.before.rotation

ConnectAttempts ==
    {i \in 1..Len(vpn_call.cmds) : vpn_call.cmds[i].cmd = "nordvpn connect"}

\* C22: on an enabled manager rotate_if_needed(force=True) always rotates
\* and rotate_if_needed(force=False) rotates exactly when the time since
\* last_rotation exceeds the interval drawn in that call; a rotation runs
\* "nordvpn disconnect" first and "nordvpn connect" after it, never the
\* other way round; a call that does not rotate runs no external command and
\* returns True.
C22_RotateWhenDue ==
    (IsRotate /\ enabled)
        => /\ vpn_call.force => Rotated
           /\ ~vpn_call.force => (Rotated <=> Elapsed > vpn_call.interval)
           /\ Rotated
                => /\ vpn_call.cmds[1].cmd = "nordvpn disconnect"
                   /\ \A i \in ConnectAttempts : i > 1
                   /\ vpn_call.pc = "done"
                        => /\ Len(vpn_call.cmds) = 2
                           /\ vpn_call.cmds[2] =
                                [cmd |-> "nordvpn connect",
                                 country |-> vpn_call.country]
           /\ ~Rotated
                => /\ vpn_call.pc = "done"
                   /\ vpn_call.result = TRUE

\* a rotation that was due without being forced, complete
C22_Witness ==
    /\ IsRotate
    /\ enabled
    /\ ~vpn_call.force
    /\ vpn_call.pc = "done"
    /\ Elapsed > vpn_call.interval
    /\ Len(vpn_call.cmds) = 2

\* C23 as stated: the interval a call of rotate_if_needed draws lies between
\* the ip_rotation_interval_min and ip_rotation_interval_max of the loaded
\* configuration.
C23_IntervalFromConfig ==
    (IsRotate /\ enabled)
        => /\ vpn_call.interval >= gc.result.ip_rotation_interval_min
           /\ vpn_call.interval <= gc.result.ip_rotation_interval_max

\* C24 as stated: a rotation whose connect failed makes further connect
\* attempts before it gives up.
C24_RotationRetried ==
    (IsRotate /\ enabled /\ Rotated /\ vpn_call.pc = "done"
        /\ vpn_call.outcome # "zero")
        => Cardinality(ConnectAttempts) > 1

\* C27: current_server and last_rotation are written only by a connect whose
\* external command exited 0, be it a call of connect_to_random_server or the
\* connect of a rotation: every step that changes one of them is such a
\* connect, so a disconnect, a failed or timed-out connect and a rotation that
\* was not due leave both as they were; and last_rotation never decreases.
C27_WrittenOnlyByConnect ==
    [][/\ (current_server' # current_server \/ last_rotation' # last_rotation)
            => /\ enabled
               /\ vpn_call'.op \in {"connect_to_random_server", "rotate_if_needed"}
               /\ vpn_call'.pc = "done"
               /\ vpn_call'.outcome = "zero"
               /\ vpn_call'.cmds[Len(vpn_call'.cmds)].cmd = "nordvpn connect"
               /\ current_server' = vpn_call'.country
               /\ last_rotation' = now
       /\ last_rotation' >= last_rotation
       /\ enabled' = enabled]_vars

\* a rotation on a connected manager whose disconnect went well and whose
\* connect timed out: server and time are those of the earlier connect
C27_Witness ==
    /\ IsRotate
    /\ enabled
    /\ vpn_call.pc = "done"
    /\ vpn_call.disconnect_outcome = "zero"
    /\ vpn_call.outcome = "timeout"
    /\ vpn_call.before.server # "None"
    /\ vpn_call.before.rotation > 0
    /\ current_server = vpn_call.before.server
    /\ last_rotation = vpn_call.before.rotation

\* C28: on an enabled manager rotate_if_needed(force=False) never rotates
\* while the time since last_rotation (which starts at construction) is at
\* most 300 s and always rotates once it is more than 1800 s; in between both
\* outcomes are possible, depending on the interval drawn.
C28_RotationWindow ==
    (IsRotate /\ enabled /\ ~vpn_call.force)
        => /\ Elapsed <= 300 => ~Rotated
           /\ Elapsed > 1800 => Rotated
           /\ (Elapsed > 300 /\ Elapsed <= 1800)
                => /\ \E iv \in RotationIntervals : Elapsed > iv
                   /\ \E iv \in RotationIntervals : ~(Elapsed > iv)
                   /\ vpn_call.interval \in RotationIntervals

\* a manager that never connected rotates unforced once more than 1800 s
\* have passed since its construction
C28_Witness ==
    /\ IsRotate
    /\ enabled
    /\ ~vpn_call.force
    /\ vpn_call.before.server = "None"
    /\ vpn_call.before.rotation = 0
    /\ Elapsed > 1800
    /\ Rotated

\* C29: a rotation calls connect_to_random_server whether or not its
\* disconnect went well, and returns exactly what that connect returned.
C29_RotateReturnsConnect ==
    (IsRotate /\ enabled /\ Rotated /\ vpn_call.pc = "done")
        => /\ Cardinality(ConnectAttempts) = 1
           /\ vpn_call.result = (vpn_call.outcome = "zero")

\* the disconnect failed, the connect went well: True
C29_Witness ==
    /\ IsRotate
    /\ enabled
    /\ vpn_call.pc = "done"
    /\ vpn_call.disconnect_outcome \in {"nonzero", "timeout", "exception"}
    /\ vpn_call.outcome = "zero"
    /\ vpn_call.result = TRUE

(***************************************************************************)
(* WebVideoDownloader._handle_login, one page operation at a time.         *)
(***************************************************************************)
\* Optional[str] values of a SiteConfig: None, the empty string, a text
Usernames == {"None", "", "user"}
Passwords == {"None", "", "secret"}
LoginUrls == {"None", "", "https://site/watch", "https://site/login"}
PageUrl == "https://site/watch"

\* bool(value) of an Optional[str]
Truthy(value) == value \notin {"None", ""}

SiteConfigs ==
    [login_username : Usernames, login_password : Passwords, login_url : LoginUrls]

\* one credential being enough to enter the login
has_credentials_Either(site_config) ==
    Truthy(site_config.login_username) \/ Truthy(site_config.login_password)

\* site_config.login_username and site_config.login_password
has_credentials(site_config) ==
    Truthy(site_config.login_username) /\ Truthy(site_config.login_password)

\* site_config.login_url or page.url
login_target(site_config) ==
    IF Truthy(site_config.login_url) THEN site_config.login_url ELSE PageUrl

LoginInit ==
    /\ login = NoCall
    /\ va_call = NoCall
    /\ vpn_call = NoCall
    /\ dl_call = NoCall
    /\ gc = NoCall
    /\ click = NoCall
    /\ RestIdle
    /\ VpnIdle

LoginFrame == UNCHANGED <<er_vars, vpn_vars, now, batch_vars, click, va_call, vpn_call, dl_call, gc>>

\* the except branch: the exception is logged and False returned
LoginRaised(op) ==
    [login EXCEPT !.pc = "returned", !.result = FALSE, !.page_ops = Append(@, op)]

\* the operation went through and the next one is due
LoginStep(op, next_pc) ==
    [login EXCEPT !.pc = next_pc, !.page_ops = Append(@, op)]

\* _handle_login(page, site_config) up to its first page operation: without
\* both credentials it returns True at once
CallHandleLogin ==
    /\ login = NoCall
    /\ \E site_config \in SiteConfigs :
         login' = [op |-> "_handle_login",
                   site_config |-> site_config,
                   pc |-> IF has_credentials(site_config) THEN "goto" ELSE "returned",
                   page_ops |-> <<>>,
                   result |-> TRUE,
                   state |-> "start"]
    /\ LoginFrame

\* page.goto(login_url) when the page is elsewhere
LoginGoto ==
    /\ login # NoCall
    /\ login.pc = "goto"
    /\ IF PageUrl # login_target(login.site_config)
       THEN \E ok \in BOOLEAN :
              login' = IF ok THEN LoginStep("goto", "fill_username")
                       ELSE LoginRaised("goto")
       ELSE login' = [login EXCEPT !.pc = "fill_username"]
    /\ LoginFrame

\* page.fill(login_username_field, login_username)
LoginFillUsername ==
    /\ login # NoCall
    /\ login.pc = "fill_username"
    /\ \E ok \in BOOLEAN :
         login' = IF ok THEN LoginStep("fill_username", "fill_password")
                  ELSE LoginRaised("fill_username")
    /\ LoginFrame

\* page.fill(login_password_field, login_password)
LoginFillPassword ==
    /\ login # NoCall
    /\ login.pc = "fill_password"
    /\ \E ok \in BOOLEAN :
         login' = IF ok THEN LoginStep("fill_password", "click")
                  ELSE LoginRaised("fill_password")
    /\ LoginFrame

\* human_click(page, login_submit_button): it returns True or False and
\* raises nothing; the caller does not read what it returns
LoginClick ==
    /\ login # NoCall
    /\ login.pc = "click"
    /\ \E clicked \in BOOLEAN :
         login' = LoginStep(IF clicked THEN "click" ELSE "click_failed", "wait")
    /\ LoginFrame

\* asyncio.sleep(wait_after_login), then return True
LoginWait ==
    /\ login # NoCall
    /\ login.pc = "wait"
    /\ login' = [login EXCEPT !.pc = "returned", !.result = TRUE]
    /\ LoginFrame

\* the automation goes on to locate the video after a login that returned
\* True, and fails after one that returned False
LoginProceed ==
    /\ login # NoCall
    /\ login.pc = "returned"
    /\ login' = [login EXCEPT !.pc = "proceeded",
                              !.state = IF login.result THEN "video_location" ELSE "failed"]
    /\ LoginFrame

\* the page is done with
LoginDone ==
    /\ login # NoCall
    /\ login.pc = "proceeded"
    /\ login' = NoCall
    /\ LoginFrame

LoginNext ==
    \/ CallHandleLogin
    \/ LoginGoto
    \/ LoginFillUsername
    \/ LoginFillPassword
    \/ LoginClick
    \/ LoginWait
    \/ LoginProceed
    \/ LoginDone

SpecLogin == LoginInit /\ [][LoginNext]_vars

InLogin == login # NoCall

\* the profile lacks the username or the password
NoCredentialPair ==
    \/ login.site_config.login_username \in {"None", ""}
    \/ login.site_config.login_password \in {"None", ""}

\* C18: for a site profile without both a username and a password,
\* _handle_login returns True without any page operation (no navigation, no
\* fill, no click), and the automation goes from start straight to locating
\* the video.
C18_NoCredentialsSkipsLogin ==
    (InLogin /\ NoCredentialPair)
        => /\ login.page_ops = <<>>
           /\ login.result = TRUE
           /\ login.pc \in {"returned", "proceeded"}
           /\ login.state = (IF login.pc = "proceeded" THEN "video_location" ELSE "start")

C18_Witness ==
    /\ InLogin
    /\ login.site_config.login_username = "user"
    /\ login.site_config.login_password = "None"
    /\ login.site_config.login_url = "https://site/login"
    /\ login.pc = "proceeded"
    /\ login.state = "video_location"

\* the page operations of the call, navigation left out
LoginOpsAfterGoto ==
    SelectSeq(login.page_ops, LAMBDA op : op # "goto")

\* C25 as stated: with both credentials _handle_login returns True only
\* after the username fill, the password fill and the click on the submit
\* control all went through, in that order; a fill that fails or a submit
\* control that cannot be clicked makes it return False.
C25_LoginFailsOnMissingElement ==
    (InLogin /\ ~NoCredentialPair /\ login.pc \in {"returned", "proceeded"})
        => (login.result = TRUE
              <=> LoginOpsAfterGoto = <<"fill_username", "fill_password", "click">>)

(***************************************************************************)
(* VideoExtractor.download_video: file names are sequences of characters,  *)
(* the glob and the suffix test are computed.                              *)
(***************************************************************************)
SufMp4 ==
    <<".", "m", "p", "4">>
SufMkv ==
    <<".", "m", "k", "v">>
SufWebm ==
    <<".", "w", "e", "b", "m">>
SufAvi ==
    <<".", "a", "v", "i">>
NameV ==
    <<"v">>
NameW ==
    <<"w">>
NameVQuestion ==
    <<"v", "?">>
NameClass ==
    <<"[", "v", "w", "]">>
NameSafe ==
    <<"s", "_", "t">>
FileVMp4 ==
    <<"v", ".", "m", "p", "4">>
FileVInfoJson ==
    <<"v", ".", "i", "n", "f", "o", ".", "j", "s", "o", "n">>
FileVUpper ==
    <<"v", ".", "M", "P", "4">>
FileVxMp4 ==
    <<"v", "x", ".", "m", "p", "4">>
FileVPart ==
    <<"v", ".", "w", "e", "b", "m", ".", "p", "a", "r", "t">>
FileWAvi ==
    <<"w", ".", "a", "v", "i">>
FileVEnMkv ==
    <<"v", ".", "e", "n", ".", "m", "k", "v">>
FileSafeWebm ==
    <<"s", "_", "t", ".", "w", "e", "b", "m">>

\* the index of the ] that closes the class opened by pat[1] = "[", 0 when
\* none does: a ! and a ] right after the [ belong to the class
class_end(pat) ==
    LET j0 == IF Len(pat) >= 2 /\ pat[2] = "!" THEN 3 ELSE 2
        j1 == IF Len(pat) >= j0 /\ pat[j0] = "]" THEN j0 + 1 ELSE j0
    IN  IF \E k \in j1..Len(pat) : pat[k] = "]"
        THEN CHOOSE k \in j1..Len(pat) :
                 /\ pat[k] = "]"
                 /\ \A m \in j1..(k - 1) : pat[m] # "]"
        ELSE 0

\* c is matched by the class pat[1..close]; ranges do not occur in the
\* patterns used here
in_class(c, pat, close) ==
    IF pat[2] = "!"
    THEN \A k \in 3..(close - 1) : pat[k] # c
    ELSE \E k \in 2..(close - 1) : pat[k] = c

\* fnmatch, case-sensitive: * any run, ? any character, [..] a class
RECURSIVE fnmatch(_, _)
fnmatch(name, pat) ==
    IF pat = <<>> THEN name = <<>>
    ELSE IF pat[1] = "*"
    THEN fnmatch(name, Tail(pat)) \/ (name # <<>> /\ fnmatch(Tail(name), pat))
    ELSE IF name = <<>> THEN FALSE
    ELSE IF pat[1] = "?" THEN fnmatch(Tail(name), Tail(pat))
    ELSE IF pat[1] = "[" /\ class_end(pat) > 0
    THEN /\ in_class(name[1], pat, class_end(pat))
         /\ fnmatch(Tail(name), From(pat, class_end(pat) + 1))
    ELSE name[1] = pat[1] /\ fnmatch(Tail(name), Tail(pat))

\* output_dir.glob(f"{filename}.*")
glob(listing, filename) ==
    {f \in listing : fnmatch(f, filename \o <<".", "*">>)}

\* Path.suffix: from the last dot, unless that dot is first or last
suffix(name) ==
    LET i == RFind(name, {"."})
    IN  IF 1 < i /\ i < Len(name) THEN From(name, i) ELSE <<>>

media_suffixes == {SufMp4, SufMkv, SufWebm, SufAvi}

\* video_files
video_files(listing, filename) ==
    {f \in glob(listing, filename) : suffix(f) \in media_suffixes}

\* the names the output directory can hold when the engine is done
Files ==
    {FileVMp4, FileVInfoJson, FileVUpper, FileVxMp4, FileVPart, FileWAvi,
     FileVEnMkv, FileSafeWebm}

\* Python's None where a name is expected: no sequence of characters
NoName == <<"None">>

\* custom_filename: None, the empty string, or a name
CustomFilenames == {NoName, <<>>, NameV, NameW, NameVQuestion, NameClass}

\* custom_filename if it is given and not empty, else the name
\* _get_safe_filename builds for the url and title at hand
chosen_filename(custom_filename) ==
    IF custom_filename \in {NoName, <<>>} THEN NameSafe ELSE custom_filename

\* DownloadResult with its defaults: a field not passed is None
DownloadResult(url, success, filepath, error, video_info, download_time) ==
    [url |-> url, success |-> success, filepath |-> filepath, error |-> error,
     video_info |-> video_info, download_time |-> download_time]

\* an exception leaving download_video
Propagated(exception) == [exception |-> exception]
IsPropagated(outcome) == "exception" \in DOMAIN outcome

\* download_video without its except branch
download_video_Unguarded(url, custom_filename, info, engine, listing, file) ==
    IF info = "None"
    THEN DownloadResult(url, FALSE, NoName, "Keine Video-Informationen gefunden",
                        "None", "None")
    ELSE IF engine = "raises"
    THEN Propagated("Exception")
    ELSE IF video_files(listing, chosen_filename(custom_filename)) # {}
    THEN DownloadResult(url, TRUE, file, "None", info, "elapsed")
    ELSE DownloadResult(url, FALSE, NoName, "Download-Datei nicht gefunden",
                        "None", "None")

\* download_video after extract_video_info: info is what that returned,
\* engine how ydl.download ended, listing the directory after it, file the
\* entry the glob yields first; download_time is time.time() - start_time
download_video(url, custom_filename, info, engine, listing, file) ==
    IF info = "None"
    THEN DownloadResult(url, FALSE, NoName, "Keine Video-Informationen gefunden",
                        "None", "None")
    ELSE IF engine = "raises"
    THEN DownloadResult(url, FALSE, NoName, "Download fehlgeschlagen", "None", "None")
    ELSE IF video_files(listing, chosen_filename(custom_filename)) # {}
    THEN DownloadResult(url, TRUE, file, "None", info, "elapsed")
    ELSE DownloadResult(url, FALSE, NoName, "Download-Datei nicht gefunden",
                        "None", "None")

\* the entries video_files[0] can be: any of video_files, in the order the
\* directory is read
FirstFiles(listing, filename) ==
    IF video_files(listing, filename) = {} THEN {NoName}
    ELSE video_files(listing, filename)

DlInit ==
    /\ dl_call = NoCall
    /\ va_call = NoCall
    /\ vpn_call = NoCall
    /\ login = NoCall
    /\ gc = NoCall
    /\ click = NoCall
    /\ RestIdle
    /\ VpnIdle

\* download_video(url, custom_filename); the directory is read only when the
\* engine has returned
CallDownloadVideo ==
    /\ dl_call = NoCall
    /\ \E custom_filename \in CustomFilenames, info \in {"None", "info"},
          engine \in {"returns", "raises"} :
         \E listing \in IF info = "info" /\ engine = "returns"
                        THEN SUBSET Files ELSE {{}} :
           \E file \in FirstFiles(listing, chosen_filename(custom_filename)) :
             dl_call' = [op |-> "download_video",
                         custom_filename |-> custom_filename,
                         info |-> info,
                         engine |-> IF info = "info" THEN engine ELSE "not called",
                         listing |-> listing,
                         result |-> download_video("url", custom_filename, info,
                                                   engine, listing, file),
                         raised |-> IsPropagated(
                                      download_video("url", custom_filename, info,
                                                     engine, listing, file))]
    /\ UNCHANGED <<er_vars, vpn_vars, now, batch_vars, click, va_call, vpn_call, login, gc>>

\* the result goes to the caller
DlReturn ==
    /\ dl_call # NoCall
    /\ dl_call' = NoCall
    /\ UNCHANGED <<er_vars, vpn_vars, now, batch_vars, click, va_call, vpn_call, login, gc>>

DlNext == CallDownloadVideo \/ DlReturn

SpecDownload == DlInit /\ [][DlNext]_vars

IsDownload == dl_call.op = "download_video"

\* the name is the file name, a dot, and more, ending in a media suffix
IsMediaFileOf(name, filename) ==
    /\ StartsWith(name, filename \o <<".">>)
    /\ \E suf \in media_suffixes : EndsWith(name, suf)

\* C19 as stated: download_video reports success only if, once the engine
\* has returned, the output directory holds a file with the expected name
\* stem and a media suffix; without such a file the result is a failure
\* even though the engine returned without error.
C19_SuccessOnlyWithMediaFile ==
    IsDownload
        => (dl_call.result.success
              => /\ dl_call.engine = "returns"
                 /\ \E f \in dl_call.listing :
                      IsMediaFileOf(f, chosen_filename(dl_call.custom_filename)))

\* C30: download_video lets no exception out, and the DownloadResult it
\* returns has, when success is true, a filepath, the video_info and a
\* download_time and no error, and, when success is false, a non-empty error
\* text and no filepath; when extract_video_info yields nothing the result is
\* a failure and ydl.download was never called.
C30_ResultWellFormed ==
    IsDownload
        => /\ ~dl_call.raised
           /\ dl_call.result.success \in BOOLEAN
           /\ dl_call.result.success
                => /\ dl_call.result.filepath # NoName
                   /\ dl_call.result.video_info # "None"
                   /\ dl_call.result.download_time # "None"
                   /\ dl_call.result.error = "None"
           /\ ~dl_call.result.success
                => /\ dl_call.result.error \notin {"None", ""}
                   /\ dl_call.result.filepath = NoName
           /\ dl_call.info = "None"
                => /\ ~dl_call.result.success
                   /\ dl_call.engine = "not called"

\* the engine raised after the metadata had been found: a failure comes back
C30_Witness ==
    /\ IsDownload
    /\ dl_call.info = "info"
    /\ dl_call.engine = "raises"
    /\ ~dl_call.raised
    /\ ~dl_call.result.success
    /\ dl_call.result.error = "Download fehlgeschlagen"

(***************************************************************************)
(* Loading the configuration.                                               *)
(***************************************************************************)
GcInit ==
    /\ gc = NoCall
    /\ click = NoCall
    /\ va_call = NoCall
    /\ vpn_call = NoCall
    /\ login = NoCall
    /\ dl_call = NoCall
    /\ RestIdle
    /\ VpnIdle

\* _load_config: GlobalConfig(**config_data), or GlobalConfig() when there
\* is no file (every key absent)
LoadConfig ==
    /\ gc = NoCall
    /\ \E config_data \in ConfigData :
         gc' = [op |-> "GlobalConfig", config_data |-> config_data,
                result |-> GlobalConfig(config_data)]
    /\ UNCHANGED <<er_vars, vpn_vars, now, batch_vars, click, va_call, vpn_call, login, dl_call>>

\* the configuration, or the error, goes to the caller
GcReturn ==
    /\ gc # NoCall
    /\ gc' = NoCall
    /\ UNCHANGED <<er_vars, vpn_vars, now, batch_vars, click, va_call, vpn_call, login, dl_call>>

GcNext == LoadConfig \/ GcReturn

SpecConfig == GcInit /\ [][GcNext]_vars

\* C20 as stated: a configuration with concurrent_downloads below 1 is
\* rejected with a validation error, so no configuration that was accepted
\* has concurrent_downloads below 1.
C20_ConcurrencyAtLeastOne ==
    gc # NoCall
        => /\ (gc.config_data.concurrent_downloads.kind = "int"
                 /\ gc.config_data.concurrent_downloads.value < 1)
                => ~gc.result.ok
           /\ gc.result.ok => gc.result.concurrent_downloads >= 1

(***************************************************************************)
(* HumanBehaviorSimulator.human_click, one awaited operation at a time.    *)
(***************************************************************************)
\* the selectors human_click is given: those of a site profile
Selectors == {"login_submit_button", "video_button[0]", "video_button[1]", "download_link[0]"}

\* random.uniform(min_seconds, max_seconds), in tenths of a second: the two
\* ends stand for the range
DelayChoices(min_tenths, max_tenths) == {min_tenths, max_tenths}

ClickFrame ==
    UNCHANGED <<er_vars, vpn_vars, now, batch_vars, va_call, vpn_call, login, dl_call, gc>>

\* one operation of the page or of the element, as it ended
PageOp(name, ok, tenths) == [name |-> name, ok |-> ok, tenths |-> tenths]

\* an operation that raised being followed by the next one all the same
click_after_KeepGoing(c, name, ok, tenths, next_pc) ==
    [c EXCEPT !.pc = next_pc, !.steps = Append(@, PageOp(name, ok, tenths))]

\* after an operation inside the try block: on to the next one, or, when it
\* raised, the except branch, which logs and returns False
click_after(c, name, ok, tenths, next_pc) ==
    IF ok
    THEN [c EXCEPT !.pc = next_pc, !.steps = Append(@, PageOp(name, TRUE, tenths))]
    ELSE [c EXCEPT !.pc = "returned", !.result = FALSE,
                   !.steps = Append(@, PageOp(name, FALSE, tenths))]

ClickInit ==
    /\ click = NoCall
    /\ va_call = NoCall
    /\ vpn_call = NoCall
    /\ login = NoCall
    /\ dl_call = NoCall
    /\ gc = NoCall
    /\ RestIdle
    /\ VpnIdle

\* human_click(page, selector) is called
CallHumanClick ==
    /\ click = NoCall
    /\ \E selector \in Selectors :
         click' = [op |-> "human_click", selector |-> selector,
                   pc |-> "wait_for_selector", steps |-> <<>>,
                   result |-> FALSE, raised |-> FALSE]
    /\ ClickFrame

\* page.wait_for_selector(selector, timeout=10000): the element, None (then
\* return False), or an exception
ClickWaitForSelector ==
    /\ click # NoCall
    /\ click.pc = "wait_for_selector"
    /\ \E found \in {"element", "None", "raises"} :
         click' = click_after(click, "wait_for_selector", found = "element", 0,
                              "scroll_into_view_if_needed")
    /\ ClickFrame

\* element.scroll_into_view_if_needed()
ClickScrollIntoView ==
    /\ click # NoCall
    /\ click.pc = "scroll_into_view_if_needed"
    /\ \E ok \in BOOLEAN :
         click' = click_after(click, "scroll_into_view_if_needed", ok, 0, "delay_1")
    /\ ClickFrame

\* random_delay(0.5, 1.0)
ClickDelayAfterScroll ==
    /\ click # NoCall
    /\ click.pc = "delay_1"
    /\ \E tenths \in DelayChoices(5, 10) :
         click' = click_after(click, "random_delay", TRUE, tenths, "hover")
    /\ ClickFrame

\* element.hover()
ClickHover ==
    /\ click # NoCall
    /\ click.pc = "hover"
    /\ \E ok \in BOOLEAN :
         click' = click_after(click, "hover", ok, 0, "delay_2")
    /\ ClickFrame

\* random_delay(0.3, 0.8)
ClickDelayAfterHover ==
    /\ click # NoCall
    /\ click.pc = "delay_2"
    /\ \E tenths \in DelayChoices(3, 8) :
         click' = click_after(click, "random_delay", TRUE, tenths, "click")
    /\ ClickFrame

\* element.click()
ClickClick ==
    /\ click # NoCall
    /\ click.pc = "click"
    /\ \E ok \in BOOLEAN :
         click' = click_after(click, "click", ok, 0, "delay_3")
    /\ ClickFrame

\* random_delay(1.0, 2.0), then return True
ClickDelayAfterClick ==
    /\ click # NoCall
    /\ click.pc = "delay_3"
    /\ \E tenths \in DelayChoices(10, 20) :
         click' = [click_after(click, "random_delay", TRUE, tenths, "returned")
                     EXCEPT !.result = TRUE]
    /\ ClickFrame

\* the caller has the result
ClickReturn ==
    /\ click # NoCall
    /\ click.pc = "returned"
    /\ click' = NoCall
    /\ ClickFrame

ClickNext ==
    \/ CallHumanClick
    \/ ClickWaitForSelector
    \/ ClickScrollIntoView
    \/ ClickDelayAfterScroll
    \/ ClickHover
    \/ ClickDelayAfterHover
    \/ ClickClick
    \/ ClickDelayAfterClick
    \/ ClickReturn

SpecClick == ClickInit /\ [][ClickNext]_vars

InClick == click # NoCall

\* the order the claim gives to the steps of a click
ClickOrder ==
    <<"wait_for_selector", "scroll_into_view_if_needed", "random_delay", "hover",
      "random_delay", "click", "random_delay">>

\* C21: the steps of human_click are, in this order, wait for the element,
\* scroll into view, delay, hover, delay, click, delay; no step follows one
\* that failed; True is returned only when all seven were done, the click
\* among them; an element not found or a failing step gives False, and
\* nothing is raised.
C21_ClickOrder ==
    InClick
        => /\ Len(click.steps) <= Len(ClickOrder)
           /\ \A i \in 1..Len(click.steps) :
                /\ click.steps[i].name = ClickOrder[i]
                /\ i < Len(click.steps) => click.steps[i].ok
           /\ click.raised = FALSE
           /\ click.pc = "returned"
                => click.result = (/\ Len(click.steps) = Len(ClickOrder)
                                   /\ \A i \in 1..Len(click.steps) : click.steps[i].ok)

C21_Witness ==
    /\ InClick
    /\ click.pc = "returned"
    /\ click.result = FALSE
    /\ Len(click.steps) = 4
    /\ click.steps[4] = PageOp("hover", FALSE, 0)

=============================================================================
